---- MODULE Spec2Model ----
(***************************************************************************)
(* Beachside Cafe API (main.py): menu retrieval with seeding and fallback, *)
(* and contact-form inquiry intake, over a document store.                 *)
(*                                                                         *)
(* Python's Optional[T] is modelled as a sequence of length <= 1:          *)
(* None is <<>> and a present value x is <<x>>.  Prices are kept in        *)
(* hundredths (5.5 is 550) so that they are integers.                      *)
(***************************************************************************)
EXTENDS Integers, Sequences, FiniteSets, TLC

None == <<>>
Some(x) == <<x>>

\* ---------------------------------------------------------------- bounds
\* the request handlers: one serves requests in sequence (Spec), two
\* serve them concurrently (SpecRace)
Procs == { 1, 2 }
\* number of records some other writer left in "menuitem" before start-up
MaxInit == 1
\* the inquiries the model lets the store accept
MaxInquiries == 1
\* completed seeding passes the history counter tells apart
MaxRuns == 2

\* ------------------------------------------------------------ sample data
SAMPLE_MENU ==
  << [name |-> "Iced Latte",
      description |-> Some("Double shot espresso with cold milk over ice"),
      price |-> 550, category |-> "Coffee", is_featured |-> TRUE],
     [name |-> "Tropical Smoothie",
      description |-> Some("Pineapple, mango, coconut water"),
      price |-> 650, category |-> "Smoothie", is_featured |-> TRUE],
     [name |-> "Avocado Toast",
      description |-> Some("Sourdough, smashed avo, chili flakes, lemon"),
      price |-> 900, category |-> "Brunch", is_featured |-> FALSE],
     [name |-> "Blueberry Muffin",
      description |-> Some("Baked daily, crumb topping"),
      price |-> 350, category |-> "Pastry", is_featured |-> FALSE],
     [name |-> "Cold Brew",
      description |-> Some("Slow steeped, smooth and bold"),
      price |-> 475, category |-> "Coffee", is_featured |-> TRUE] >>

\* ------------------------------------------------------- the document store
\* A stored record: every field is optional (d.get(k) is None when absent).
\* A stored price is a number or a string.
Num(n) == [tag |-> "float", val |-> n]
Str(n) == [tag |-> "str", val |-> n]     \* the digits of n, or "n/a" when n < 0

\* model_dump(): the record a schema object is stored as
model_dump(m) ==
  [name |-> Some(m.name), description |-> m.description,
   price |-> Some(Num(m.price)), category |-> Some(m.category),
   is_featured |-> Some(m.is_featured)]

SampleDocs == [k \in 1..Len(SAMPLE_MENU) |-> model_dump(SAMPLE_MENU[k])]

\* records written by somebody else, as the collection may hold them
ForeignDocs ==
  { [name |-> Some("Espresso"), description |-> None, price |-> Some(Num(300)),
     category |-> Some("Coffee"), is_featured |-> None],
    [name |-> Some("Scone"), description |-> None, price |-> None,
     category |-> Some("Pastry"), is_featured |-> Some(FALSE)],
    [name |-> Some("Mocha"), description |-> None, price |-> Some(Str(500)),
     category |-> Some("Coffee"), is_featured |-> Some(TRUE)],
    [name |-> None, description |-> Some("Ask the staff"), price |-> Some(Str(-1)),
     category |-> Some("Pastry"), is_featured |-> Some(TRUE)] }

RECURSIVE SeqsUpTo(_, _)
SeqsUpTo(S, n) ==
  IF n = 0 THEN { <<>> }
  ELSE LET R == SeqsUpTo(S, n - 1)
       IN R \cup { Append(s, x) : s \in { r \in R : Len(r) = n - 1 }, x \in S }

\* filter match of the store: equality on every key of the filter
Matches(d, filt) ==
  /\ (filt.category # None => d.category = filt.category)
  /\ (filt.is_featured # None => d.is_featured = filt.is_featured)

Take(s, n) == IF Len(s) <= n THEN s ELSE SubSeq(s, 1, n)

\* get_documents(collection, filter, limit): limit None is "no limit"
get_documents(coll, filt, limit) ==
  LET hits == SelectSeq(coll, LAMBDA d : Matches(d, filt))
  IN IF limit = None THEN hits ELSE Take(hits, limit[1])

\* create_document(collection, data): the collection afterwards and the id
create_document(coll, doc) ==
  [coll |-> Append(coll, doc), id |-> Len(coll) + 1]

NoFilter == [category |-> None, is_featured |-> None]

\* ------------------------------------------------------------- get_menu
\* Python truthiness of an Optional[str]
Truthy(s) == s # None /\ s # Some("")

\* the filter without the is_featured key
filt_no_featured(category, featured) ==
  [category |-> IF Truthy(category) THEN category ELSE None,
   is_featured |-> None]

\* lines 110-114: the filter built from the query parameters
filt(category, featured) ==
  [category |-> IF Truthy(category) THEN category ELSE None,
   is_featured |-> IF featured # None THEN featured ELSE None]

\* float(x): defined on numbers and on numeric text
FloatOk(p) == p # None /\ (p[1].tag = "str" => p[1].val >= 0)
Float(p) == p[1].val

\* bool(d.get("is_featured", False))
Bool(f) == IF f = None THEN FALSE ELSE f[1]

\* lines 120-126: a record that MenuItemOut(...) accepts
Mappable(d) == d.name # None /\ d.category # None /\ FloatOk(d.price)

MenuItemOut(d) ==
  [name |-> d.name[1], description |-> d.description, price |-> Float(d.price),
   category |-> d.category[1], is_featured |-> Bool(d.is_featured)]

\* MenuItemOut(**m.model_dump()) of a sample item
SampleOut(m) == MenuItemOut(model_dump(m))

\* the sample list filtered by the featured flag only
Fallback_no_category(category, featured) ==
  LET byFeat == IF featured # None
                THEN SelectSeq(SAMPLE_MENU, LAMBDA m : m.is_featured = featured[1])
                ELSE SAMPLE_MENU
  IN [k \in 1..Len(byFeat) |-> SampleOut(byFeat[k])]

\* lines 130-135: the sample list filtered in memory
Fallback(category, featured) ==
  LET byCat == IF Truthy(category)
               THEN SelectSeq(SAMPLE_MENU, LAMBDA m : m.category = category[1])
               ELSE SAMPLE_MENU
      byFeat == IF featured # None
                THEN SelectSeq(byCat, LAMBDA m : m.is_featured = featured[1])
                ELSE byCat
  IN [k \in 1..Len(byFeat) |-> SampleOut(byFeat[k])]

\* the mapping loop outside the try block: a mapping error propagates
get_menu_result_unguarded(queryOk, docs, category, featured) ==
  IF ~queryOk
  THEN [outcome |-> "returned", source |-> "fallback",
        items |-> Fallback(category, featured)]
  ELSE IF \A k \in 1..Len(docs) : Mappable(docs[k])
  THEN [outcome |-> "returned", source |-> "storage",
        items |-> [k \in 1..Len(docs) |-> MenuItemOut(docs[k])]]
  ELSE [outcome |-> "raised", source |-> "none", items |-> <<>>]

\* the fallback also taken on an empty result
get_menu_result_on_empty(queryOk, docs, category, featured) ==
  IF queryOk /\ docs # <<>> /\ \A k \in 1..Len(docs) : Mappable(docs[k])
  THEN [outcome |-> "returned", source |-> "storage",
        items |-> [k \in 1..Len(docs) |-> MenuItemOut(docs[k])]]
  ELSE [outcome |-> "returned", source |-> "fallback",
        items |-> Fallback(category, featured)]

\* lines 116-135: the try/except around the query and the mapping
get_menu_result(queryOk, docs, category, featured) ==
  IF queryOk /\ \A k \in 1..Len(docs) : Mappable(docs[k])
  THEN [outcome |-> "returned", source |-> "storage",
        items |-> [k \in 1..Len(docs) |-> MenuItemOut(docs[k])]]
  ELSE [outcome |-> "returned", source |-> "fallback",
        items |-> Fallback(category, featured)]

\* ------------------------------------------------------- ensure_menu_seeded
\* the emptiness check looking at a collection nothing is written to
Existing_elsewhere(checkOk, coll) ==
  IF ~checkOk THEN "raised"
  ELSE IF get_documents(<<>>, NoFilter, Some(1)) = <<>> THEN "empty"
  ELSE "nonempty"

\* line 97-98 and 101-103: what the emptiness check tells the seeder
Existing(checkOk, coll) ==
  IF ~checkOk THEN "raised"
  ELSE IF get_documents(coll, NoFilter, Some(1)) = <<>> THEN "empty"
  ELSE "nonempty"

\* seeding also when the emptiness check raised
SeedWanted_on_error(existing) == existing \in { "empty", "raised" }

\* seeding whatever the emptiness check found
SeedWanted_unchecked(existing) == existing # "raised"

\* line 98: the seeding loop is entered
SeedWanted(existing) == existing = "empty"

\* the loop leaving out the last item
SeedContinues_short(k, insertOk) == insertOk /\ k < Len(SAMPLE_MENU) - 1

\* the loop catching each insert's error by itself
SeedContinues_each(k, insertOk) == k < Len(SAMPLE_MENU)

\* lines 99-103: the loop goes on after insert number k
SeedContinues(k, insertOk) == insertOk /\ k < Len(SAMPLE_MENU)

\* ---------------------------------------------------------- submit_inquiry
Payloads ==
  { [name |-> "Ann", email |-> "ann@example.com", message |-> "Hi",
     phone |-> None, topic |-> None],
    [name |-> "Bob", email |-> "bob@example.com", message |-> "Table for two",
     phone |-> Some("555"), topic |-> Some("Booking")] }

\* the handler without its try/except
submit_inquiry_result_unguarded(constructOk, writeOk, coll, payload) ==
  IF constructOk /\ writeOk
  THEN LET r == create_document(coll, payload)
       IN [outcome |-> "returned", coll |-> r.coll,
           ack |-> Some([status |-> "ok", id |-> Some(r.id)])]
  ELSE [outcome |-> "raised", coll |-> coll, ack |-> None]

\* lines 141-147
submit_inquiry_result(constructOk, writeOk, coll, payload) ==
  IF constructOk /\ writeOk
  THEN LET r == create_document(coll, payload)
       IN [outcome |-> "returned", coll |-> r.coll,
           ack |-> Some([status |-> "ok", id |-> Some(r.id)])]
  ELSE [outcome |-> "returned", coll |-> coll,
        ack |-> Some([status |-> "ok", id |-> None])]

\* ------------------------------------------------------------------ state
VARIABLES
  menuitem,   \* the "menuitem" collection, in insertion order
  inquiry,    \* the "inquiry" collection
  call,       \* per handler: the request it serves and its locals
  menu0,      \* history: "menuitem" at start-up
  runs,       \* history: seeding passes completed (counted up to MaxRuns)
  clean,      \* history: no menu store call raised, no two menu calls overlapped
  raced       \* history: two handlers saw "menuitem" empty before either finished seeding

vars == << menuitem, inquiry, call, menu0, runs, clean, raced >>

Categories == { None, Some(""), Some("Coffee"), Some("Tea") }
Featured == { None, Some(TRUE), Some(FALSE) }
\* the query parameters of the concurrent requests
RaceCategories == { None }
RaceFeatured == { None, Some(TRUE) }

Idle ==
  [op |-> "none", pc |-> "idle", category |-> None, featured |-> None,
   existing |-> "unset", i |-> 0, written |-> 0, attempts |-> 0, failedAt |-> 0,
   query |-> "unset", ndocs |-> 0, outcome |-> "none", source |-> "none",
   items |-> <<>>, ack |-> None, alone |-> TRUE]

Init ==
  /\ menu0 \in SeqsUpTo(ForeignDocs, MaxInit) \cup { SampleDocs }
  /\ menuitem = menu0
  /\ inquiry = <<>>
  /\ call = [p \in Procs |-> Idle]
  /\ runs = 0
  /\ clean = TRUE
  /\ raced = FALSE

InMenuCall(c) == c.op \in { "get_menu", "ensure_menu_seeded" } /\ c.pc # "done"

\* a menu request starting on p: the requests in flight are no longer alone
Started(p, c) ==
  [q \in Procs |->
     IF q = p THEN [c EXCEPT !.alone = \A r \in Procs \ {p} : ~InMenuCall(call[r])]
     ELSE IF InMenuCall(call[q]) THEN [call[q] EXCEPT !.alone = FALSE]
     ELSE call[q]]

Overlaps(p) == \E r \in Procs \ {p} : InMenuCall(call[r])

\* GET /api/menu arrives (line 107)
CallGetMenu(p, Cs, Fs) ==
  /\ call[p].pc = "idle"
  /\ \E category \in Cs, featured \in Fs :
       call' = Started(p, [Idle EXCEPT !.op = "get_menu", !.pc = "check",
                                       !.category = category, !.featured = featured])
  /\ clean' = (clean /\ ~Overlaps(p))
  /\ UNCHANGED << menuitem, inquiry, menu0, runs, raced >>

\* ensure_menu_seeded() called on its own (line 95)
CallSeed(p) ==
  /\ call[p].pc = "idle"
  /\ call' = Started(p, [Idle EXCEPT !.op = "ensure_menu_seeded", !.pc = "check"])
  /\ clean' = (clean /\ ~Overlaps(p))
  /\ UNCHANGED << menuitem, inquiry, menu0, runs, raced >>

\* where the handler goes when the seeder is over
AfterSeed(c) == IF c.op = "get_menu" THEN "query" ELSE "done"
AfterSeedOutcome(c) == IF c.op = "get_menu" THEN "none" ELSE "returned"
Count(n) == IF n < MaxRuns THEN n + 1 ELSE n

\* line 97: existing = get_documents("menuitem", {}, limit=1)
Check(p) ==
  /\ call[p].pc = "check"
  /\ \E checkOk \in BOOLEAN :
       LET e == Existing(checkOk, menuitem)
           c == call[p]
       IN /\ IF SeedWanted(e)
             THEN /\ call' = [call EXCEPT ![p] = [c EXCEPT !.existing = e,
                                                           !.pc = "insert", !.i = 1]]
                  /\ runs' = runs
             ELSE /\ call' = [call EXCEPT ![p] = [c EXCEPT !.existing = e,
                                                           !.pc = AfterSeed(c),
                                                           !.outcome = AfterSeedOutcome(c)]]
                  /\ runs' = Count(runs)
          /\ clean' = (clean /\ checkOk)
          /\ raced' = (raced \/ (e = "empty" /\ \E q \in Procs \ {p} :
                                   call[q].pc = "insert"))
  /\ UNCHANGED << menuitem, inquiry, menu0 >>

\* line 100: create_document("menuitem", item), item number i of the loop
Insert(p) ==
  /\ call[p].pc = "insert"
  /\ \E insertOk \in BOOLEAN :
       LET c == call[p]
           more == SeedContinues(c.i, insertOk)
       IN /\ menuitem' = IF insertOk
                         THEN create_document(menuitem, model_dump(SAMPLE_MENU[c.i])).coll
                         ELSE menuitem
          /\ call' = [call EXCEPT ![p] =
               [c EXCEPT !.attempts = c.attempts + 1,
                         !.written = IF insertOk THEN c.written + 1 ELSE c.written,
                         !.failedAt = IF insertOk THEN c.failedAt ELSE c.i,
                         !.i = IF more THEN c.i + 1 ELSE c.i,
                         !.pc = IF more THEN "insert" ELSE AfterSeed(c),
                         !.outcome = IF more THEN "none" ELSE AfterSeedOutcome(c)]]
          /\ runs' = IF more THEN runs ELSE Count(runs)
          /\ clean' = (clean /\ insertOk)
  /\ UNCHANGED << inquiry, menu0, raced >>

\* lines 110-135: the filtered query, the mapping and the fallback
Query(p) ==
  /\ call[p].pc = "query"
  /\ \E queryOk \in BOOLEAN :
       LET c == call[p]
           docs == IF queryOk
                   THEN get_documents(menuitem, filt(c.category, c.featured), None)
                   ELSE <<>>
           r == get_menu_result(queryOk, docs, c.category, c.featured)
       IN /\ call' = [call EXCEPT ![p] =
               [c EXCEPT !.query = IF queryOk THEN "ok" ELSE "raised",
                         !.ndocs = Len(docs), !.pc = "done",
                         !.outcome = r.outcome, !.source = r.source,
                         !.items = r.items]]
          /\ clean' = (clean /\ queryOk)
  /\ UNCHANGED << menuitem, inquiry, menu0, runs, raced >>

\* POST /api/inquiry (lines 138-147)
SubmitInquiry(p) ==
  /\ call[p].pc = "idle"
  /\ Len(inquiry) < MaxInquiries
  /\ \E payload \in Payloads, constructOk \in BOOLEAN, writeOk \in BOOLEAN :
       LET r == submit_inquiry_result(constructOk, writeOk, inquiry, payload)
       IN /\ inquiry' = r.coll
          /\ call' = [call EXCEPT ![p] =
               [Idle EXCEPT !.op = "submit_inquiry", !.pc = "done",
                            !.attempts = IF constructOk THEN 1 ELSE 0,
                            !.written = IF constructOk /\ writeOk THEN 1 ELSE 0,
                            !.failedAt = IF constructOk /\ ~writeOk THEN 1 ELSE 0,
                            !.outcome = r.outcome, !.ack = r.ack]]
  /\ UNCHANGED << menuitem, menu0, runs, clean, raced >>

\* the response has been sent; the handler takes the next request
Return(p) ==
  /\ call[p].pc = "done"
  /\ call' = [call EXCEPT ![p] = Idle]
  /\ UNCHANGED << menuitem, inquiry, menu0, runs, clean, raced >>

\* one handler, one request after the other
Next ==
  \/ CallGetMenu(1, Categories, Featured)
  \/ CallSeed(1)
  \/ Check(1)
  \/ Insert(1)
  \/ Query(1)
  \/ SubmitInquiry(1)
  \/ Return(1)

Spec == Init /\ [][Next]_vars

\* two handlers serving menu requests concurrently; they interleave at
\* the store calls
NextRace ==
  \E p \in Procs :
    \/ CallGetMenu(p, RaceCategories, RaceFeatured)
    \/ CallSeed(p)
    \/ Check(p)
    \/ Insert(p)
    \/ Query(p)
    \/ Return(p)

InitRace == Init /\ menu0 \in SeqsUpTo(ForeignDocs, MaxInit)

SpecRace == InitRace /\ [][NextRace]_vars

\* ----------------------------------------------------------------- claims
MenuDone(c) == c.op = "get_menu" /\ c.pc = "done"
\* the seeder of a menu request is over
SeedOver(c) ==
  \/ c.op = "get_menu" /\ c.pc \in { "query", "done" }
  \/ c.op = "ensure_menu_seeded" /\ c.pc = "done"
Names(items) == [k \in 1..Len(items) |-> items[k].name]
\* the sample items a request for (category, featured) is to get, a
\* category counting as supplied when it is a non-empty string
Wanted(category, featured) ==
  LET keep(m) == /\ (category # None /\ category # Some("") => m.category = category[1])
                 /\ (featured # None => m.is_featured = featured[1])
      ms == SelectSeq(SAMPLE_MENU, keep)
  IN [k \in 1..Len(ms) |->
        [name |-> ms[k].name, description |-> ms[k].description,
         price |-> ms[k].price, category |-> ms[k].category,
         is_featured |-> ms[k].is_featured]]

\* C1 as stated: every returned item has the category supplied, whatever
\* string it is, and the featured value supplied.
C1_AnySuppliedString ==
  \A p \in Procs : MenuDone(call[p]) =>
    \A k \in 1..Len(call[p].items) :
      /\ (call[p].category # None => call[p].items[k].category = call[p].category[1])
      /\ (call[p].featured # None => call[p].items[k].is_featured = call[p].featured[1])

\* C1 amended: every item get_menu returns, from storage or from the
\* fallback, has the category supplied when a non-empty category is supplied,
\* and the featured value supplied when one is supplied; an empty category
\* string filters nothing.
C1_ItemsMatchFilters ==
  \A p \in Procs : MenuDone(call[p]) =>
    \A k \in 1..Len(call[p].items) :
      /\ (call[p].category \notin { None, Some("") }
            => call[p].items[k].category = call[p].category[1])
      /\ (call[p].featured # None
            => call[p].items[k].is_featured = call[p].featured[1])

C1_Witness ==
  \E p \in Procs :
    /\ MenuDone(call[p]) /\ call[p].source = "storage"
    /\ call[p].category = Some("Coffee") /\ call[p].featured = Some(TRUE)
    /\ Len(call[p].items) = 2 /\ Len(menuitem) = 5

\* C2: get_menu never ends in an error: whatever the emptiness check, the
\* seed writes, the query and the mapping of the records do, it returns a
\* sequence of menu items.
C2_NeverRaises ==
  \A p \in Procs : call[p].op = "get_menu" =>
    /\ call[p].outcome # "raised"
    /\ (call[p].pc = "done" =>
          /\ call[p].outcome = "returned"
          /\ call[p].source \in { "storage", "fallback" }
          /\ \A k \in 1..Len(call[p].items) :
               /\ call[p].items[k].is_featured \in BOOLEAN
               /\ call[p].items[k].price \in Nat)

C2_Witness ==
  \E p \in Procs :
    /\ MenuDone(call[p]) /\ call[p].query = "ok" /\ call[p].ndocs > 0
    /\ call[p].source = "fallback" /\ call[p].outcome = "returned"
    /\ \E k \in 1..Len(menuitem) : menuitem[k].price = None

\* C3: a get_menu that finds "menuitem" empty, with every store call
\* succeeding and no other request in between, has written the five sample
\* items when the filtered query is issued and answers from them; with
\* featured=true that is Iced Latte, Tropical Smoothie, Cold Brew.
C3_SeededBeforeQuery ==
  \A p \in Procs :
    LET c == call[p]
    IN (c.op = "get_menu" /\ c.existing = "empty" /\ c.failedAt = 0 /\ c.alone) =>
         /\ (c.pc \in { "query", "done" } =>
               /\ c.written = 5
               /\ Len(menuitem) = 5
               /\ \A k \in 1..5 :
                    /\ menuitem[k].name = Some(SAMPLE_MENU[k].name)
                    /\ menuitem[k].price = Some(Num(SAMPLE_MENU[k].price))
                    /\ menuitem[k].category = Some(SAMPLE_MENU[k].category)
                    /\ menuitem[k].is_featured = Some(SAMPLE_MENU[k].is_featured))
         /\ (c.pc = "done" /\ c.query = "ok" =>
               /\ c.source = "storage"
               /\ c.items = Wanted(c.category, c.featured)
               /\ (c.featured = Some(TRUE) /\ c.category \in { None, Some("") } =>
                     Names(c.items) = << "Iced Latte", "Tropical Smoothie", "Cold Brew" >>))

C3_Witness ==
  \E p \in Procs :
    /\ MenuDone(call[p]) /\ call[p].existing = "empty" /\ call[p].written = 5
    /\ call[p].query = "ok" /\ call[p].featured = Some(TRUE) /\ call[p].category = None
    /\ Len(call[p].items) = 3

\* C4: two seeding passes in sequence from an empty collection, every store
\* call succeeding, leave exactly the 5 sample items: the second pass finds
\* the collection non-empty and writes nothing.
C4_SeedTwiceFive ==
  (menu0 = <<>> /\ clean /\ runs >= 2) =>
    /\ Len(menuitem) = 5
    /\ menuitem = SampleDocs
    /\ \A p \in Procs : SeedOver(call[p]) =>
         call[p].existing = "nonempty" /\ call[p].written = 0 /\ call[p].attempts = 0

C4_Witness ==
  /\ menu0 = <<>> /\ clean /\ runs = 2 /\ Len(menuitem) = 5
  /\ \E p \in Procs : call[p].op = "ensure_menu_seeded" /\ call[p].pc = "done"

\* C5: submit_inquiry always answers status "ok": when the record is built
\* and the write succeeds, exactly one record is added and the answer has
\* the id the store gave it; otherwise the answer has no id and nothing is
\* added.
C5_AlwaysAcknowledged ==
  [][ \A p \in Procs :
        (call[p].pc = "idle" /\ call'[p].op = "submit_inquiry") =>
          LET c == call'[p]
          IN /\ c.outcome = "returned"
             /\ c.ack # None
             /\ c.ack[1].status = "ok"
             /\ (c.written = 1 =>
                   /\ Len(inquiry') = Len(inquiry) + 1
                   /\ SubSeq(inquiry', 1, Len(inquiry)) = inquiry
                   /\ inquiry'[Len(inquiry')] \in Payloads
                   /\ c.ack[1].id = Some(Len(inquiry')))
             /\ (c.written = 0 => c.ack[1].id = None /\ inquiry' = inquiry) ]_vars

C5_Witness ==
  \E p \in Procs :
    /\ call[p].op = "submit_inquiry" /\ call[p].pc = "done" /\ call[p].written = 1
    /\ call[p].ack = Some([status |-> "ok", id |-> Some(1)]) /\ Len(inquiry) = 1

\* C6: a get_menu all of whose store calls raise returns the sample items
\* matching the filters, in declaration order (all five without a filter,
\* Iced Latte and Cold Brew for category=Coffee), and writes nothing.
C6_FallbackWhenStoreDown ==
  \A p \in Procs :
    LET c == call[p]
    IN (MenuDone(c) /\ c.existing = "raised" /\ c.query = "raised") =>
         /\ c.source = "fallback"
         /\ c.items = Wanted(c.category, c.featured)
         /\ (c.category = None /\ c.featured = None =>
               Names(c.items) = << "Iced Latte", "Tropical Smoothie", "Avocado Toast",
                                   "Blueberry Muffin", "Cold Brew" >>)
         /\ (c.category = Some("Coffee") /\ c.featured = None =>
               Names(c.items) = << "Iced Latte", "Cold Brew" >>)
         /\ c.attempts = 0 /\ c.written = 0

C6_Witness ==
  \E p \in Procs :
    /\ MenuDone(call[p]) /\ call[p].existing = "raised" /\ call[p].query = "raised"
    /\ call[p].category = Some("Coffee") /\ call[p].featured = None
    /\ Len(call[p].items) = 2

\* a stored record MenuItemOut cannot be built from
Malformed(d) ==
  \/ d.name = None
  \/ d.category = None
  \/ d.price = None
  \/ d.price # None /\ d.price[1].tag = "str" /\ d.price[1].val < 0

\* C7 as stated: the fallback is taken only when a store call raised.
C7_FallbackOnlyOnStoreError ==
  \A p \in Procs :
    (MenuDone(call[p]) /\ call[p].source = "fallback") =>
      \/ call[p].existing = "raised"
      \/ call[p].failedAt # 0
      \/ call[p].query = "raised"

\* C7 amended: the fallback is taken only when the filtered query raises or
\* a record it returned cannot be mapped to a menu item; a query that
\* succeeds and matches nothing gives the empty sequence, not sample data.
C7_EmptyResultIsEmpty ==
  \A p \in Procs :
    LET c == call[p]
    IN MenuDone(c) =>
         /\ (c.source = "fallback" =>
               \/ c.query = "raised"
               \/ /\ c.query = "ok" /\ c.ndocs > 0
                  /\ (c.alone => \E k \in 1..Len(menuitem) : Malformed(menuitem[k])))
         /\ (c.query = "ok" /\ c.ndocs = 0 => c.items = <<>> /\ c.source = "storage")

C7_Witness ==
  \E p \in Procs :
    /\ MenuDone(call[p]) /\ call[p].query = "ok" /\ call[p].ndocs = 0
    /\ call[p].category = Some("Tea") /\ call[p].items = <<>>
    /\ Len(menuitem) = 5

\* C8 as stated: the seeder attempts all five inserts whenever its check
\* finds no document, the check raising included.
C8_SeedsAlsoWhenCheckRaises ==
  \A p \in Procs :
    (SeedOver(call[p]) /\ call[p].existing \in { "empty", "raised" } /\ call[p].failedAt = 0)
      => call[p].attempts = 5

\* C8 amended: the seeder attempts the five inserts only when its emptiness
\* check succeeds and finds no document; when the check itself raises, the
\* error is swallowed and no insert is attempted, as for a non-empty store.
C8_SeedsOnlyWhenSeenEmpty ==
  \A p \in Procs :
    LET c == call[p]
    IN SeedOver(c) =>
         /\ c.existing \in { "empty", "nonempty", "raised" }
         /\ (c.existing = "empty" /\ c.failedAt = 0 => c.attempts = 5)
         /\ (c.existing = "empty" => c.attempts >= 1)
         /\ (c.existing \in { "raised", "nonempty" } => c.attempts = 0 /\ c.written = 0)
         /\ c.outcome # "raised"

C8_Witness ==
  \E p \in Procs :
    /\ SeedOver(call[p]) /\ call[p].existing = "raised" /\ call[p].attempts = 0
    /\ menuitem = <<>>

\* the number of stored copies of a record
Copies(d) == Cardinality({ k \in 1..Len(menuitem) : menuitem[k] = d })

\* C9: with two concurrent callers the collection gets more than 5 seeded
\* items only when both saw it empty before either had written, and then at
\* most each sample item twice.
C9_OnlyRaceDoubleSeeds ==
  /\ (Len(menuitem) - Len(menu0) > 5 => raced)
  /\ Len(menuitem) - Len(menu0) <= 10
  /\ \A k \in 1..5 : Copies(SampleDocs[k]) <= 2

C9_Witness ==
  /\ menu0 = <<>> /\ raced /\ Len(menuitem) = 10
  /\ \A k \in 1..5 : Copies(SampleDocs[k]) = 2
  /\ \A p \in Procs : call[p].pc = "done" /\ call[p].written = 5

\* C10: when insert number k of a seeding pass fails, the pass makes no
\* further insert, leaves the first k-1 sample items stored and ends
\* without raising.
C10_FailedInsertStopsSeeding ==
  \A p \in Procs :
    LET c == call[p]
    IN (c.op \in { "get_menu", "ensure_menu_seeded" } /\ c.failedAt # 0) =>
         /\ SeedOver(c)
         /\ c.failedAt \in 1..5
         /\ c.attempts = c.failedAt
         /\ c.written = c.failedAt - 1
         /\ c.outcome # "raised"
         /\ (c.alone => menuitem = SubSeq(SampleDocs, 1, c.failedAt - 1))

C10_Witness ==
  \E p \in Procs :
    /\ call[p].op = "ensure_menu_seeded" /\ call[p].pc = "done"
    /\ call[p].failedAt = 3 /\ Len(menuitem) = 2 /\ call[p].outcome = "returned"
====
